---- MODULE Spec2Model ----
(***************************************************************************)
(* Marching-squares cell classifier (getCode) and vertex generator         *)
(* (getVertices) of modules/layers/src/contour-layer/marching-squares.js.  *)
(*                                                                         *)
(* JavaScript values are modelled as tagged records:                       *)
(*   [kind |-> "num", n, d]   the finite number n/d (d > 0)                *)
(*   [kind |-> "nan"]         a number that is not finite                  *)
(*   [kind |-> "undefined"]   undefined (absent option, array hole)        *)
(*   [kind |-> "array", a]    an array of finite integers                  *)
(* A thrown AssertionError is a result [status |-> "error", line |-> l]    *)
(* where l is the source line of the failed assert.                        *)
(***************************************************************************)
EXTENDS Integers, Sequences, FiniteSets, TLC

VARIABLES width, height, cellWeights, pc, args, ret, cursor, scanned

vars == <<width, height, cellWeights, pc, args, ret, cursor, scanned>>

\* ---------------------------------------------------------------- bounds
MaxCells == 4
MaxScanCells == 9
MaxCellIndex == 1

\* ------------------------------------------------------------- JS values
Num(n) == [kind |-> "num", n |-> n, d |-> 1]
Frac(n, d) == [kind |-> "num", n |-> n, d |-> d]
NaN == [kind |-> "nan"]
Undefined == [kind |-> "undefined"]
Arr(s) == [kind |-> "array", a |-> s]

isFinite(v) == v.kind = "num"
isArray(v) == v.kind = "array"

\* JS truthiness of an option value: undefined, NaN and 0 are falsy, every
\* array (also the empty one) and every non-zero number is truthy.
Truthy(v) ==
  CASE v.kind = "num" -> v.n # 0
    [] v.kind = "array" -> TRUE
    [] OTHER -> FALSE

\* a < b and a >= b on JS values: any comparison with undefined/NaN is false
JsLt(a, b) == /\ a.kind = "num"
              /\ b.kind = "num"
              /\ a.n * b.d < b.n * a.d
JsGe(a, b) == /\ a.kind = "num"
              /\ b.kind = "num"
              /\ a.n * b.d >= b.n * a.d

\* arr[i] of a JS array (0-based); undefined past the end
Elem(arr, i) == IF i >= 0 /\ i < Len(arr.a) THEN Num(arr.a[i + 1]) ELSE Undefined

\* cellWeights[i] (0-based flat index); undefined outside the array
ReadWeight(weights, i) ==
  IF i >= 0 /\ i < Len(weights) THEN Num(weights[i + 1]) ELSE Undefined

\* ------------------------------------------------------- integer bit ops
RECURSIVE BitOr(_, _)
BitOr(a, b) ==
  IF a = 0 THEN b
  ELSE IF b = 0 THEN a
  ELSE (IF a % 2 = 1 \/ b % 2 = 1 THEN 1 ELSE 0) + 2 * BitOr(a \div 2, b \div 2)

RECURSIVE Shl(_, _)
Shl(a, k) == IF k = 0 THEN a ELSE Shl(2 * a, k - 1)

\* --------------------------------------------------------- getVertexCode
\* assert at line 23: threshold is a finite number or an array longer than 1
thresholdAccepted(threshold) ==
  isFinite(threshold) \/ (isArray(threshold) /\ Len(threshold.a) > 1)

isoBandClassSwapped(weight, threshold) ==
  IF JsLt(weight, Elem(threshold, 0)) THEN 0
  ELSE IF JsLt(weight, Elem(threshold, 1)) THEN 2 ELSE 1

isoBandClass(weight, threshold) ==
  IF JsLt(weight, Elem(threshold, 0)) THEN 0
  ELSE IF JsLt(weight, Elem(threshold, 1)) THEN 1 ELSE 2

isoLineClass(weight, threshold) == IF JsGe(weight, threshold) THEN 1 ELSE 0

getVertexCode(weight, threshold) ==
  IF ~thresholdAccepted(threshold) THEN [ok |-> FALSE, v |-> -1]
  ELSE IF isArray(threshold) THEN [ok |-> TRUE, v |-> isoBandClass(weight, threshold)]
  ELSE [ok |-> TRUE, v |-> isoLineClass(weight, threshold)]

\* --------------------------------------------------------------- getCode
inRangeXInclusive(x, w) == x >= -1 /\ x <= w
inRangeX(x, w) == x >= -1 /\ x < w
inRangeY(y, h) == y >= -1 /\ y < h

isLeftBoundaryInclusive(x) == x <= 0
isLeftBoundary(x) == x < 0
isRightBoundary(x, w) == x >= w - 1
isBottomBoundary(y) == y < 0
isTopBoundary(y, h) == y >= h - 1
isBoundary(x, y, w, h) ==
  isLeftBoundary(x) \/ isRightBoundary(x, w) \/ isBottomBoundary(y) \/ isTopBoundary(y, h)

topForcedBoth(x, y, w, h) == isLeftBoundary(x) /\ isTopBoundary(y, h)
topForced(x, y, w, h) == isLeftBoundary(x) \/ isTopBoundary(y, h)
topRightForcedRightOnly(x, y, w, h) == isRightBoundary(x, w)
topRightForced(x, y, w, h) == isRightBoundary(x, w) \/ isTopBoundary(y, h)
rightForced(x, y, w, h) == isRightBoundary(x, w) \/ isBottomBoundary(y)
currentForced(x, y, w, h) == isLeftBoundary(x) \/ isBottomBoundary(y)

topIndex(x, y, w) == (y + 1) * w + x
topRightIndex(x, y, w) == (y + 1) * w + x + 1
rightIndex(x, y, w) == y * w + x + 1
currentIndex(x, y, w) == y * w + x

\* one corner: forced to class 0 without a read, or read and classified
\*   ok: getVertexCode did not throw, v: class, w: weights.<corner>,
\*   rd: flat indices read from cellWeights
corner(forced, idx, weights, threshold) ==
  IF forced THEN [ok |-> TRUE, v |-> 0, w |-> Undefined, rd |-> {}]
  ELSE LET wt == ReadWeight(weights, idx)
           c == getVertexCode(wt, threshold)
       IN [ok |-> c.ok, v |-> c.v, w |-> wt, rd |-> {idx}]

packLinesReversed(top, topRight, right, current) ==
  BitOr(BitOr(BitOr(Shl(current, 3), Shl(right, 2)), Shl(topRight, 1)), top)
packLines(top, topRight, right, current) ==
  BitOr(BitOr(BitOr(Shl(top, 3), Shl(topRight, 2)), Shl(right, 1)), current)
packBandsNarrow(top, topRight, right, current) ==
  BitOr(BitOr(BitOr(Shl(top, 3), Shl(topRight, 2)), Shl(right, 1)), current)
packBands(top, topRight, right, current) ==
  BitOr(BitOr(BitOr(Shl(top, 6), Shl(topRight, 4)), Shl(right, 2)), current)

packCode(threshold, top, topRight, right, current) ==
  LET c0 == -1
      c1 == IF isFinite(threshold) THEN packLines(top, topRight, right, current) ELSE c0
  IN IF isArray(threshold) THEN packBands(top, topRight, right, current) ELSE c1

\* (weights.top + weights.topRight + weights.right + weights.current) / 4
meanWeight(t, tr, r, c) ==
  IF isFinite(t) /\ isFinite(tr) /\ isFinite(r) /\ isFinite(c)
  THEN Frac(t.n + tr.n + r.n + c.n, 4) ELSE NaN

Throw(l, rd, warned) == [status |-> "error", line |-> l, reads |-> rd, warned |-> warned]

\* the returned {code, meanCode}; codes (the local codes object), reads and
\* warned (log.deprecated was called) record what the call did
Return(code, meanCode, codes, rd, warned) ==
  [status |-> "ok", code |-> code, meanCode |-> meanCode, codes |-> codes,
   reads |-> rd, warned |-> warned]

getCode(opts) ==
  LET x == opts.x
      y == opts.y
      w == opts.width
      h == opts.height
      warned == Truthy(opts.thresholdValue)
      threshold == IF warned THEN opts.thresholdValue ELSE opts.threshold
  IN
  IF ~inRangeX(x, w) THEN Throw(50, {}, warned)
  ELSE IF ~inRangeY(y, h) THEN Throw(51, {}, warned)
  ELSE
  LET top == corner(topForced(x, y, w, h), topIndex(x, y, w), opts.cellWeights, threshold) IN
  IF ~top.ok THEN Throw(23, top.rd, warned) ELSE
  LET topRight == corner(topRightForced(x, y, w, h), topRightIndex(x, y, w),
                         opts.cellWeights, threshold) IN
  IF ~topRight.ok THEN Throw(23, top.rd \cup topRight.rd, warned) ELSE
  LET right == corner(rightForced(x, y, w, h), rightIndex(x, y, w),
                      opts.cellWeights, threshold) IN
  IF ~right.ok THEN Throw(23, top.rd \cup topRight.rd \cup right.rd, warned) ELSE
  LET current == corner(currentForced(x, y, w, h), currentIndex(x, y, w),
                        opts.cellWeights, threshold)
      rd == top.rd \cup topRight.rd \cup right.rd \cup current.rd
  IN
  IF ~current.ok THEN Throw(23, rd, warned) ELSE
  LET codes == [top |-> top.v, topRight |-> topRight.v, right |-> right.v, current |-> current.v]
      code == packCode(threshold, top.v, topRight.v, right.v, current.v)
  IN
  IF ~(code >= 0) THEN Throw(102, rd, warned)
  ELSE IF ~isBoundary(x, y, w, h)
  THEN IF ~(isFinite(top.w) /\ isFinite(topRight.w) /\ isFinite(right.w) /\ isFinite(current.w))
       THEN Throw(109, rd, warned)
       ELSE LET m == getVertexCode(meanWeight(top.w, topRight.w, right.w, current.w), threshold)
            IN IF ~m.ok THEN Throw(23, rd, warned)
               ELSE Return(code, m.v, codes, rd, warned)
  ELSE Return(code, 0, codes, rd, warned)

\* ------------------------------------------------------ offset tables
\* marching-squares-codes.js: code -> list of templates, or (saddle codes)
\* meanCode -> list of templates.  Offsets are fractions of a cell; they are
\* held here as numerators over OffsetDenom (N = [0, 0.5] is <<0, 1>>).
OffsetDenom == 2
OffN == <<0, 1>>
OffE == <<1, 0>>
OffS == <<0, -1>>
OffW == <<-1, 0>>
OffNE == <<1, 1>>
OffNW == <<-1, 1>>
OffSE == <<1, -1>>
OffSW == <<-1, -1>>

List(templates) == [kind |-> "list", v |-> templates]
Saddle(byMeanCode) == [kind |-> "map", m |-> byMeanCode]

ISOLINES_CODE_OFFSET_MAP ==
  [code \in 0..15 |->
     CASE code = 0 -> List(<<>>)
       [] code = 1 -> List(<< <<OffW, OffS>> >>)
       [] code = 2 -> List(<< <<OffS, OffE>> >>)
       [] code = 3 -> List(<< <<OffW, OffE>> >>)
       [] code = 4 -> List(<< <<OffN, OffE>> >>)
       [] code = 5 -> Saddle(0 :> << <<OffW, OffS>>, <<OffN, OffE>> >>
                             @@ 1 :> << <<OffW, OffN>>, <<OffS, OffE>> >>)
       [] code = 6 -> List(<< <<OffN, OffS>> >>)
       [] code = 7 -> List(<< <<OffW, OffN>> >>)
       [] code = 8 -> List(<< <<OffW, OffN>> >>)
       [] code = 9 -> List(<< <<OffN, OffS>> >>)
       [] code = 10 -> Saddle(0 :> << <<OffW, OffN>>, <<OffS, OffE>> >>
                              @@ 1 :> << <<OffW, OffS>>, <<OffN, OffE>> >>)
       [] code = 11 -> List(<< <<OffN, OffE>> >>)
       [] code = 12 -> List(<< <<OffW, OffE>> >>)
       [] code = 13 -> List(<< <<OffS, OffE>> >>)
       [] code = 14 -> List(<< <<OffW, OffS>> >>)
       [] OTHER -> List(<<>>)]

\* a part of the sparse iso-band table: empty entries, a triangle, the full
\* square, and two saddle codes
ISOBANDS_CODE_OFFSET_MAP ==
  0 :> List(<<>>)
  @@ 170 :> List(<<>>)
  @@ 1 :> List(<< <<OffSW, OffS, OffW>> >>)
  @@ 85 :> List(<< <<OffSW, OffSE, OffNE, OffNW>> >>)
  @@ 68 :> Saddle(0 :> << <<OffNW, OffN, OffW>>, <<OffSE, OffS, OffE>> >>
                  @@ 1 :> << <<OffNW, OffN, OffE, OffSE, OffS, OffW>> >>)
  @@ 136 :> Saddle(0 :> << <<OffN, OffW>> , <<OffS, OffE>> >>
                   @@ 1 :> << <<OffN, OffE, OffS, OffW>> >>
                   @@ 2 :> << <<OffNW, OffN, OffE, OffSE, OffS, OffW>> >>)

\* table[code]; undefined when the code is not a key
Lookup(table, code) == IF code \in DOMAIN table THEN table[code] ELSE Undefined

\* ------------------------------------------------------------ getVertices
ISO_LINES == 1
ISO_BANDS == 2
\* Z_OFFSET = 0.002, in thousandths
Z_OFFSET == 2

DEFAULT_THRESHOLD_DATA == [zIndex |-> 0, zOffsetScale |-> 1]

\* Object.assign({}, DEFAULT_THRESHOLD_DATA, opts.thresholdData)
assignThresholdData(thresholdData) ==
  [k \in DOMAIN DEFAULT_THRESHOLD_DATA |->
     IF k \in DOMAIN thresholdData THEN thresholdData[k] ELSE DEFAULT_THRESHOLD_DATA[k]]

\* type = CONTOUR_TYPE.ISO_LINES when the option is undefined
typeOrDefault(type) == IF type.kind = "undefined" THEN Num(ISO_LINES) ELSE type

typeKnown(type) == type.kind = "num" /\ type.d = 1 /\ type.n \in {ISO_LINES, ISO_BANDS}

selectOffsets(type, code) ==
  IF type.n = ISO_LINES THEN Lookup(ISOLINES_CODE_OFFSET_MAP, code)
  ELSE Lookup(ISOBANDS_CODE_OFFSET_MAP, code)

\* offsets = offsets[meanCode] for a saddle entry; undefined for a missing key
resolveSaddle(offsets, meanCode) ==
  IF offsets.kind = "list" THEN offsets
  ELSE IF meanCode \in DOMAIN offsets.m THEN List(offsets.m[meanCode]) ELSE Undefined

vertexXInRangeLoose(x) == x >= -2
vertexXInRange(x) == x >= -1
vertexYInRange(y) == y >= -1

vZOf(thresholdData) == thresholdData.zIndex * Z_OFFSET * thresholdData.zOffsetScale
rNoShift(i, size) == i * size
rOf(i, size) == (i + 1) * size
refVertexOf(origin, r) == origin + r

\* [vX, vY, vZ]; vX and vY in units of 1/OffsetDenom, vZ in thousandths
vertexOf(offset, refVertexX, refVertexY, cellSize, vZ) ==
  <<OffsetDenom * refVertexX + offset[1] * cellSize[1],
    OffsetDenom * refVertexY + offset[2] * cellSize[2],
    vZ>>

polygonOf(polygonOffsets, refVertexX, refVertexY, cellSize, vZ) ==
  [j \in 1..Len(polygonOffsets) |->
     vertexOf(polygonOffsets[j], refVertexX, refVertexY, cellSize, vZ)]

RECURSIVE Flatten(_)
Flatten(ss) == IF ss = <<>> THEN <<>> ELSE Head(ss) \o Flatten(Tail(ss))

bandsResult(offsets, refVertexX, refVertexY, cellSize, vZ) ==
  [i \in 1..Len(offsets) |-> polygonOf(offsets[i], refVertexX, refVertexY, cellSize, vZ)]

linesResult(offsets, refVertexX, refVertexY, cellSize, vZ) ==
  Flatten(bandsResult(offsets, refVertexX, refVertexY, cellSize, vZ))

VThrow(l) == [status |-> "error", line |-> l]

getVertices(opts) ==
  LET type == typeOrDefault(opts.type)
      thresholdData == assignThresholdData(opts.thresholdData)
  IN
  IF ~typeKnown(type) THEN VThrow(139) ELSE
  LET entry == selectOffsets(type, opts.code) IN
  IF entry.kind = "undefined" THEN VThrow(142) ELSE
  LET offsets == resolveSaddle(entry, opts.meanCode) IN
  IF offsets.kind # "list" THEN VThrow(148)
  ELSE IF ~vertexXInRange(opts.x) THEN VThrow(151)
  ELSE IF ~vertexYInRange(opts.y) THEN VThrow(152)
  ELSE
  LET vZ == vZOf(thresholdData)
      rX == rOf(opts.x, opts.cellSize[1])
      rY == rOf(opts.y, opts.cellSize[2])
      refVertexX == refVertexOf(opts.gridOrigin[1], rX)
      refVertexY == refVertexOf(opts.gridOrigin[2], rY)
  IN [status |-> "ok",
      results |-> IF type.n = ISO_LINES
                  THEN linesResult(offsets.v, refVertexX, refVertexY, opts.cellSize, vZ)
                  ELSE bandsResult(offsets.v, refVertexX, refVertexY, opts.cellSize, vZ)]

\* ------------------------------------------------- classifier state machine
\* The caller holds a ScalarField (width, height, cellWeights) and calls
\* getCode on it; the field may be replaced by one with a raised sample.
Grids(maxCells) ==
  {g \in (1..maxCells) \X (1..maxCells) : g[1] * g[2] <= maxCells}

SampleVals == {0, 5, 10}
Thresholds ==
  {Num(5), Arr(<<3, 8>>), Arr(<<8, 3>>), Arr(<<5, 5>>), Arr(<<3, 8, 9>>),
   Arr(<<5>>), Undefined, NaN}
ThresholdValues == {Undefined, Num(0), Num(10), Arr(<<5, 10>>)}

NoArgs == [x |-> 0, y |-> 0]
NoRet == [status |-> "none"]

Init ==
  /\ \E g \in Grids(MaxCells) :
       /\ width = g[1]
       /\ height = g[2]
       /\ cellWeights \in [1..(g[1] * g[2]) -> SampleVals]
  /\ pc = "idle"
  /\ args = NoArgs
  /\ ret = NoRet
  /\ cursor = <<-1, -1>>
  /\ scanned = <<>>

Opts(x, y, threshold, thresholdValue) ==
  [cellWeights |-> cellWeights, width |-> width, height |-> height,
   x |-> x, y |-> y, threshold |-> threshold, thresholdValue |-> thresholdValue]

CallGetCode ==
  \E x \in (-2)..width, y \in (-2)..height,
     threshold \in Thresholds, thresholdValue \in ThresholdValues :
    /\ pc = "idle"
    /\ pc' = "getCode"
    /\ args' = [x |-> x, y |-> y, threshold |-> threshold, thresholdValue |-> thresholdValue]
    /\ ret' = getCode(Opts(x, y, threshold, thresholdValue))
    /\ UNCHANGED <<width, height, cellWeights, cursor, scanned>>

\* the caller supplies the same field with one sample raised
RaiseSample ==
  \E i \in 1..Len(cellWeights), v \in SampleVals :
    /\ pc = "idle"
    /\ v > cellWeights[i]
    /\ cellWeights' = [cellWeights EXCEPT ![i] = v]
    /\ pc' = "raised"
    /\ args' = [x |-> i - 1, y |-> cellWeights[i]]
    /\ ret' = NoRet
    /\ UNCHANGED <<width, height, cursor, scanned>>

\* the caller has consumed the result of the last call
Finish ==
  /\ pc \in {"getCode", "raised"}
  /\ pc' = "idle"
  /\ args' = NoArgs
  /\ ret' = NoRet
  /\ UNCHANGED <<width, height, cellWeights, cursor, scanned>>

Next == CallGetCode \/ RaiseSample \/ Finish

Spec == Init /\ [][Next]_vars

\* ------------------------------------------------------ claim vocabulary
\* the threshold in effect for the recorded call
EffThreshold == IF Truthy(args.thresholdValue) THEN args.thresholdValue ELSE args.threshold

Called == pc = "getCode"
Returned == Called /\ ret.status = "ok"
Failed == Called /\ ret.status = "error"
AddrInRange == args.x >= -1 /\ args.x <= width - 1 /\ args.y >= -1 /\ args.y <= height - 1

\* the four corners of a cell, as grid positions
CornerNames == {"top", "topRight", "right", "current"}
CornerPos(x, y) ==
  [top |-> <<x, y + 1>>, topRight |-> <<x + 1, y + 1>>,
   right |-> <<x + 1, y>>, current |-> <<x, y>>]
InsideGrid(p) == p[1] >= 0 /\ p[1] < width /\ p[2] >= 0 /\ p[2] < height
SampleAt(p) == cellWeights[p[2] * width + p[1] + 1]

\* CornerClass of the value n/d as the data model defines it
SpecClass(n, d, threshold) ==
  IF threshold.kind = "num"
  THEN IF n * threshold.d >= threshold.n * d THEN 1 ELSE 0
  ELSE IF n < threshold.a[1] * d THEN 0
       ELSE IF n < threshold.a[2] * d THEN 1 ELSE 2

AllInside(x, y) == \A c \in CornerNames : InsideGrid(CornerPos(x, y)[c])
SampleSum(x, y) ==
  SampleAt(CornerPos(x, y).top) + SampleAt(CornerPos(x, y).topRight)
    + SampleAt(CornerPos(x, y).right) + SampleAt(CornerPos(x, y).current)

\* the class a returned code holds for a corner
FieldOf(code, threshold, c) ==
  LET k == CASE c = "top" -> 3 [] c = "topRight" -> 2 [] c = "right" -> 1 [] OTHER -> 0
  IN IF threshold.kind = "num" THEN (code \div (2 ^ k)) % 2 ELSE (code \div (4 ^ k)) % 4

\* C1: a corner outside the grid has class 0 whatever the samples are, a
\* corner inside has the class of its own sample; meanCode is the placeholder
\* 0 when some corner is outside and the class of the mean otherwise.
C1_GhostCornersForced ==
  Returned =>
    LET pos == CornerPos(args.x, args.y) IN
    /\ \A c \in CornerNames :
         ret.codes[c] = IF InsideGrid(pos[c])
                        THEN SpecClass(SampleAt(pos[c]), 1, EffThreshold) ELSE 0
    /\ ret.meanCode = IF AllInside(args.x, args.y)
                      THEN SpecClass(SampleSum(args.x, args.y), 4, EffThreshold) ELSE 0

C1_Witness ==
  /\ Returned
  /\ ~InsideGrid(<<args.x, args.y + 1>>)
  /\ InsideGrid(<<args.x + 1, args.y>>)
  /\ SampleAt(<<args.x + 1, args.y>>) = 10
  /\ ret.codes.right = 2
  /\ ret.codes.top = 0
  /\ ret.meanCode = 0

\* C2: with a scalar threshold the code is in 0..15 with the classes at bits
\* 3,2,1,0; with a range it is top*64 + topRight*16 + right*4 + current and
\* every class is 0, 1 or 2.
C2_CodePacking ==
  Returned =>
    /\ isFinite(EffThreshold) =>
         /\ ret.code \in 0..15
         /\ \A c \in CornerNames : ret.codes[c] \in {0, 1}
         /\ ret.code = 8 * ret.codes.top + 4 * ret.codes.topRight
                         + 2 * ret.codes.right + ret.codes.current
    /\ isArray(EffThreshold) =>
         /\ \A c \in CornerNames : ret.codes[c] \in {0, 1, 2}
         /\ ret.code = 64 * ret.codes.top + 16 * ret.codes.topRight
                         + 4 * ret.codes.right + ret.codes.current

C2_Witness ==
  /\ Returned
  /\ isArray(EffThreshold)
  /\ ret.codes.top = 2
  /\ ret.codes.topRight = 1
  /\ ret.codes.right = 2
  /\ ret.code = 128 + 16 + 8

\* C3: getCode fails for every threshold that is neither a finite scalar
\* nor a strictly ascending 2-element range, at every valid cell address.
ThresholdPerSpec(t) ==
  \/ t.kind = "num"
  \/ t.kind = "array" /\ Len(t.a) = 2 /\ t.a[1] < t.a[2]

C3_InvalidThresholdFails ==
  (Called /\ AddrInRange /\ ~ThresholdPerSpec(EffThreshold)) => ret.status = "error"

\* C4: getCode fails on the address asserts exactly when the address is
\* outside [-1, width-1] x [-1, height-1], then without reading a sample;
\* an accepted address reads only indices in 0..width*height-1.
C4_AddressRange ==
  Called =>
    /\ (ret.status = "error" /\ ret.line \in {50, 51}) <=> ~AddrInRange
    /\ ~AddrInRange => ret.reads = {}
    /\ AddrInRange => ret.reads \subseteq 0..(width * height - 1)

C4_Witness ==
  /\ Failed
  /\ args.x = width
  /\ args.y \in 0..(height - 1)
  /\ ret.line = 50
  /\ ret.reads = {}

\* C7: a cell with a corner outside the grid has two corners on a common
\* cell edge both of class 0, and its code is never a saddle pattern.
AdjacentPairs ==
  {<<"top", "topRight">>, <<"topRight", "right">>,
   <<"right", "current">>, <<"current", "top">>}

C7_NoSaddleAtBoundary ==
  (Returned /\ ~AllInside(args.x, args.y)) =>
    LET f(c) == FieldOf(ret.code, EffThreshold, c) IN
    /\ \E e \in AdjacentPairs : f(e[1]) = 0 /\ f(e[2]) = 0
    /\ isFinite(EffThreshold) => ret.code \notin {5, 10}
    /\ isArray(EffThreshold) =>
         ~(f("top") = f("right") /\ f("topRight") = f("current") /\ f("top") # f("topRight"))
    /\ ret.meanCode = 0

C7_Witness ==
  /\ Returned
  /\ ~AllInside(args.x, args.y)
  /\ isFinite(EffThreshold)
  /\ ret.code = 6

\* C8: the corner class is monotonic in the sample, takes the values of the
\* data model for a scalar and for a range lo < hi, and raising one sample
\* never lowers that corner's field of any cell's code and changes no other
\* field.
AcceptedThresholds == {t \in Thresholds \cup ThresholdValues : thresholdAccepted(t)}

ClassMonotone ==
  \A t \in AcceptedThresholds : \A i, j \in 1..Len(cellWeights) :
    LET ci == getVertexCode(Num(cellWeights[i]), t)
        cj == getVertexCode(Num(cellWeights[j]), t)
    IN /\ ci.ok
       /\ cellWeights[i] <= cellWeights[j] => ci.v <= cj.v
       /\ (t.kind = "num" \/ t.a[1] < t.a[2]) => ci.v = SpecClass(cellWeights[i], 1, t)

RaisedIndex == args.x
OldField == [cellWeights EXCEPT ![RaisedIndex + 1] = args.y]
CellsOf == ((-1)..(width - 1)) \X ((-1)..(height - 1))
CodeOn(field, cell, t) ==
  getCode([cellWeights |-> field, width |-> width, height |-> height,
           x |-> cell[1], y |-> cell[2], threshold |-> t, thresholdValue |-> Undefined])

C8_Monotonic ==
  /\ pc = "idle" => ClassMonotone
  /\ pc = "raised" =>
       \A t \in AcceptedThresholds : \A cell \in CellsOf :
         LET before == CodeOn(OldField, cell, t)
             after == CodeOn(cellWeights, cell, t)
             pos == CornerPos(cell[1], cell[2])
         IN /\ before.status = "ok"
            /\ after.status = "ok"
            /\ \A c \in CornerNames :
                 IF InsideGrid(pos[c]) /\ pos[c][2] * width + pos[c][1] = RaisedIndex
                 THEN FieldOf(after.code, t, c) >= FieldOf(before.code, t, c)
                 ELSE FieldOf(after.code, t, c) = FieldOf(before.code, t, c)

C8_Witness ==
  /\ pc = "raised"
  /\ \E cell \in CellsOf :
       /\ AllInside(cell[1], cell[2])
       /\ cell[2] * width + cell[1] = RaisedIndex
       /\ FieldOf(CodeOn(OldField, cell, Arr(<<3, 8>>)).code, Arr(<<3, 8>>), "current") = 0
       /\ FieldOf(CodeOn(cellWeights, cell, Arr(<<3, 8>>)).code, Arr(<<3, 8>>), "current") = 2

\* ------------------------------------------------------------ scan of a field
\* The caller's pass over the ghost-inclusive range (-1,-1)..(width-1,
\* height-1): one getCode call per cell, results kept per cell address.
ScanSampleVals == {0, 10}
ScanThresholds == {Num(5), Num(0)}

ScanInit ==
  /\ \E g \in Grids(MaxScanCells) :
       /\ width = g[1]
       /\ height = g[2]
       /\ cellWeights \in [1..(g[1] * g[2]) -> ScanSampleVals]
  /\ pc = "scan"
  /\ \E t \in ScanThresholds :
       args = [x |-> 0, y |-> 0, threshold |-> t, thresholdValue |-> Undefined]
  /\ ret = NoRet
  /\ cursor = <<-1, -1>>
  /\ scanned = <<>>

NextCursor(c) == IF c[2] < height - 1 THEN <<c[1], c[2] + 1>> ELSE <<c[1] + 1, -1>>
LastCursor(c) == c = <<width - 1, height - 1>>

ScanStep ==
  /\ pc = "scan"
  /\ LET r == getCode(Opts(cursor[1], cursor[2], args.threshold, args.thresholdValue)) IN
     /\ ret' = r
     /\ scanned' = scanned @@ (cursor :> r)
     /\ pc' = IF r.status = "error" THEN "aborted"
              ELSE IF LastCursor(cursor) THEN "scanned" ELSE "scan"
     /\ cursor' = IF r.status = "error" \/ LastCursor(cursor) THEN cursor ELSE NextCursor(cursor)
  /\ UNCHANGED <<width, height, cellWeights, args>>

\* the next pass over the same field starts
ScanRestart ==
  /\ pc = "scanned"
  /\ pc' = "scan"
  /\ ret' = NoRet
  /\ cursor' = <<-1, -1>>
  /\ scanned' = <<>>
  /\ UNCHANGED <<width, height, cellWeights, args>>

ScanNext == ScanStep \/ ScanRestart

ScanSpec == ScanInit /\ [][ScanNext]_vars

Scenario1 ==
  /\ width = 2
  /\ height = 2
  /\ cellWeights = <<0, 0, 0, 10>>
  /\ args.threshold = Num(5)
  /\ pc = "scanned"

OnesIn(r) == Cardinality({c \in CornerNames : r.codes[c] = 1})

\* C5 (as stated): in scenario 1 only the cell (0,0) has a corner of class
\* 1, exactly one, its top-right corner (code 4).
C5_OnlyOneCell ==
  Scenario1 =>
    /\ scanned[<<0, 0>>].code = 4
    /\ OnesIn(scanned[<<0, 0>>]) = 1
    /\ \A cell \in DOMAIN scanned : cell # <<0, 0>> => OnesIn(scanned[cell]) = 0

\* C5 (amended): in scenario 1 the four cells that have grid corner (1,1)
\* as a corner each have exactly one corner of class 1: (0,0) code 4,
\* (1,0) code 8, (0,1) code 2, (1,1) code 1; the other five cells have none.
C5_FourCells ==
  Scenario1 =>
    /\ DOMAIN scanned = CellsOf
    /\ scanned[<<0, 0>>].code = 4 /\ scanned[<<0, 0>>].codes.topRight = 1
    /\ scanned[<<1, 0>>].code = 8
    /\ scanned[<<0, 1>>].code = 2
    /\ scanned[<<1, 1>>].code = 1
    /\ \A cell \in DOMAIN scanned :
         OnesIn(scanned[cell]) = IF cell[1] >= 0 /\ cell[2] >= 0 THEN 1 ELSE 0
    /\ \A cell \in DOMAIN scanned : (cell[1] < 0 \/ cell[2] < 0) => scanned[cell].code = 0

C5_Witness == Scenario1 /\ scanned[<<1, 1>>].code = 1 /\ scanned[<<0, 0>>].code = 4

\* C6: after a full scan with a scalar threshold every unit edge whose end
\* corners have different classes belongs to exactly two scanned cells, and
\* every cell that has a corner gives it the same class.
Lattice == ((-1)..width) \X ((-1)..height)
UnitEdges ==
  {e \in Lattice \X Lattice :
     \/ e[2] = <<e[1][1] + 1, e[1][2]>>
     \/ e[2] = <<e[1][1], e[1][2] + 1>>}
CornerOf(cell, p) == CHOOSE c \in CornerNames : CornerPos(cell[1], cell[2])[c] = p
HasCorner(cell, p) == \E c \in CornerNames : CornerPos(cell[1], cell[2])[c] = p
ClassIn(cell, p) == FieldOf(scanned[cell].code, args.threshold, CornerOf(cell, p))
CellsWith(p) == {cell \in DOMAIN scanned : HasCorner(cell, p)}

C6_CrossingsPairUp ==
  pc = "scanned" =>
    /\ DOMAIN scanned = CellsOf
    /\ \A cell \in DOMAIN scanned : scanned[cell].status = "ok"
    /\ \A p \in Lattice : \A c1, c2 \in CellsWith(p) : ClassIn(c1, p) = ClassIn(c2, p)
    /\ \A e \in UnitEdges :
         LET cs == CellsWith(e[1]) \cap CellsWith(e[2]) IN
         (\E c \in cs : ClassIn(c, e[1]) # ClassIn(c, e[2])) => Cardinality(cs) = 2

C6_Witness ==
  /\ pc = "scanned"
  /\ width = 3
  /\ height = 3
  /\ cellWeights = <<10, 10, 10, 10, 0, 10, 10, 10, 10>>
  /\ args.threshold = Num(5)
  /\ scanned[<<1, 1>>].code = 14
  /\ scanned[<<0, 0>>].code = 11
  /\ scanned[<<2, 2>>].code = 1
  /\ scanned[<<-1, -1>>].code = 4

\* ------------------------------------------------ vertex generator calls
TypeVals == {Undefined, Num(ISO_LINES), Num(ISO_BANDS), Num(3)}
CodeVals == {0, 1, 5, 10, 15, 16, 68, 85, 136, 170}
MeanCodeVals == {0, 1, 2}
GridGeometries ==
  {[origin |-> <<0, 0>>, cellSize |-> <<1, 1>>], [origin |-> <<-7, 20>>, cellSize |-> <<2, 3>>]}
ThresholdDataVals ==
  {<<>>, [zIndex |-> 2], [zOffsetScale |-> 5], [zIndex |-> 3, zOffsetScale |-> 4]}

VerticesInit ==
  /\ width = 1
  /\ height = 1
  /\ cellWeights = <<0>>
  /\ pc = "idle"
  /\ args = NoArgs
  /\ ret = NoRet
  /\ cursor = <<-1, -1>>
  /\ scanned = <<>>

CallGetVertices ==
  \E x \in (-2)..MaxCellIndex, y \in (-2)..MaxCellIndex,
     code \in CodeVals, meanCode \in MeanCodeVals, type \in TypeVals,
     geometry \in GridGeometries, thresholdData \in ThresholdDataVals :
    /\ pc = "idle"
    /\ pc' = "getVertices"
    /\ args' = [gridOrigin |-> geometry.origin, cellSize |-> geometry.cellSize,
                x |-> x, y |-> y, code |-> code, meanCode |-> meanCode, type |-> type,
                thresholdData |-> thresholdData]
    /\ ret' = getVertices(args')
    /\ UNCHANGED <<width, height, cellWeights, cursor, scanned>>

\* the same call once more
CallGetVerticesAgain ==
  /\ pc = "getVertices"
  /\ ret' = getVertices(args)
  /\ UNCHANGED <<width, height, cellWeights, pc, args, cursor, scanned>>

FinishVertices ==
  /\ pc = "getVertices"
  /\ pc' = "idle"
  /\ args' = NoArgs
  /\ ret' = NoRet
  /\ UNCHANGED <<width, height, cellWeights, cursor, scanned>>

VerticesNext == CallGetVertices \/ CallGetVerticesAgain \/ FinishVertices

VerticesSpec == VerticesInit /\ [][VerticesNext]_vars

VCalled == pc = "getVertices"
ArgType == IF args.type = Undefined THEN ISO_LINES ELSE args.type.n
TableOf(t) == IF t = ISO_LINES THEN ISOLINES_CODE_OFFSET_MAP ELSE ISOBANDS_CODE_OFFSET_MAP
TypeOk == ArgType \in {ISO_LINES, ISO_BANDS}
CodeMapped == args.code \in DOMAIN TableOf(ArgType)
EntryOf == TableOf(ArgType)[args.code]
MeanCodeMissing == EntryOf.kind = "map" /\ args.meanCode \notin DOMAIN EntryOf.m
\* the templates selected for the recorded call
Templates == IF EntryOf.kind = "map" THEN EntryOf.m[args.meanCode] ELSE EntryOf.v

\* C9: getVertices fails, with no geometry, exactly when the type is not
\* ISO_LINES/ISO_BANDS, the code has no entry in the selected table, the
\* entry is a meanCode map without the meanCode, or x < -1 or y < -1.
C9_FailureCases ==
  VCalled =>
    /\ ret.status \in {"ok", "error"}
    /\ ret.status = "error" <=>
         \/ ~TypeOk
         \/ ~CodeMapped
         \/ MeanCodeMissing
         \/ args.x < -1
         \/ args.y < -1
    /\ ret.status = "error" => "results" \notin DOMAIN ret
    /\ ret.status = "ok" => "results" \in DOMAIN ret

C9_Witness ==
  /\ VCalled
  /\ ret.status = "error"
  /\ ArgType = ISO_BANDS
  /\ args.code = 68
  /\ args.meanCode = 2
  /\ args.x >= -1
  /\ args.y >= -1

\* C10: every template point (ox, oy) becomes, in table order, the point
\* (origin.x + (x+1)*size.x + ox*size.x, origin.y + (y+1)*size.y + oy*size.y,
\* zIndex*Z_OFFSET*zOffsetScale); ISO_LINES gives one flat sequence,
\* ISO_BANDS one ring per template; a repeated call gives the same result.
ArgZIndex == IF "zIndex" \in DOMAIN args.thresholdData THEN args.thresholdData.zIndex ELSE 0
ArgZScale ==
  IF "zOffsetScale" \in DOMAIN args.thresholdData THEN args.thresholdData.zOffsetScale ELSE 1
\* the world point of an offset, x and y over OffsetDenom, z in thousandths
WorldPoint(off) ==
  <<OffsetDenom * (args.gridOrigin[1] + (args.x + 1) * args.cellSize[1])
      + off[1] * args.cellSize[1],
    OffsetDenom * (args.gridOrigin[2] + (args.y + 1) * args.cellSize[2])
      + off[2] * args.cellSize[2],
    ArgZIndex * 2 * ArgZScale>>
RECURSIVE PointsBefore(_, _)
PointsBefore(ts, i) == IF i <= 1 THEN 0 ELSE Len(ts[i - 1]) + PointsBefore(ts, i - 1)

GeometryAsTemplates ==
  (VCalled /\ ret.status = "ok") =>
    IF ArgType = ISO_LINES
    THEN /\ Len(ret.results) = PointsBefore(Templates, Len(Templates) + 1)
         /\ \A i \in 1..Len(Templates) : \A j \in 1..Len(Templates[i]) :
              ret.results[PointsBefore(Templates, i) + j] = WorldPoint(Templates[i][j])
    ELSE /\ Len(ret.results) = Len(Templates)
         /\ \A i \in 1..Len(Templates) :
              /\ Len(ret.results[i]) = Len(Templates[i])
              /\ \A j \in 1..Len(Templates[i]) :
                   ret.results[i][j] = WorldPoint(Templates[i][j])

====
